---- MODULE Spec2Model ----
(***************************************************************************)
(* Model of avail_wheels.py: the Wheel class (filename tag parsing and     *)
(* equality), get_wheels (wheelhouse traversal, glob and python filters),  *)
(* latest_versions and sort.                                               *)
(*                                                                         *)
(* Python strings are sequences of one-character strings, so that the      *)
(* regular expression, the glob and the version splitting are computed     *)
(* character by character as the library does.  Python's None is the       *)
(* value None below.  A call either returns a value or raises: the result  *)
(* of every modelled function is a record [ok, val, exc].                  *)
(***************************************************************************)
EXTENDS Integers, Sequences, FiniteSets, TLC

VARIABLES pc, wheelhouse, args, ret, raised

vars == <<pc, wheelhouse, args, ret, raised>>

(***************************************************************************)
(* Characters and strings                                                  *)
(***************************************************************************)

\* The characters of the model in code point order (a subset of ASCII).
Ascii ==
  << " ", "*", "+", "-", ".", "/",
     "0", "1", "2", "3", "4", "5", "6", "7", "8", "9", ":", "?",
     "A", "B", "C", "D", "E", "F", "G", "H", "I", "J", "K", "L", "M",
     "N", "O", "P", "Q", "R", "S", "T", "U", "V", "W", "X", "Y", "Z",
     "_",
     "a", "b", "c", "d", "e", "f", "g", "h", "i", "j", "k", "l", "m",
     "n", "o", "p", "q", "r", "s", "t", "u", "v", "w", "x", "y", "z" >>

Digits == {"0", "1", "2", "3", "4", "5", "6", "7", "8", "9"}

Ord == [c \in {Ascii[i] : i \in 1..Len(Ascii)} |->
          CHOOSE i \in 1..Len(Ascii) : Ascii[i] = c]

Uppers == {c \in DOMAIN Ord : Ord["A"] <= Ord[c] /\ Ord[c] <= Ord["Z"]}

Lowers == {c \in DOMAIN Ord : Ord["a"] <= Ord[c] /\ Ord[c] <= Ord["z"]}

DigitValue(c) == Ord[c] - Ord["0"]

\* str.lower / str.casefold on one ASCII character.
LowerChar(c) ==
  IF c \in Uppers THEN Ascii[Ord[c] + (Ord["a"] - Ord["A"])] ELSE c

casefold(s) == [i \in 1..Len(s) |-> LowerChar(s[i])]

\* The regular expression class \w on ASCII text.
IsWord(c) == c \in Digits \cup Uppers \cup Lowers \cup {"_"}

\* The regular expression class [\w.] .
IsWordDot(c) == IsWord(c) \/ c = "."

InClass(c, cls) == IF cls = "w" THEN IsWord(c) ELSE IsWordDot(c)

\* Python's None; no string is equal to it (a string holds characters only).
None == << "<None>" >>

\* str(x) as the f-strings of the program apply it.
Str(x) == IF x = None THEN << "N", "o", "n", "e" >> ELSE x

\* s < t on Python strings: code point order, a proper prefix is smaller.
RECURSIVE StrLtFrom(_, _, _)
StrLtFrom(s, t, i) ==
  IF i > Len(s) THEN i <= Len(t)
  ELSE IF i > Len(t) THEN FALSE
  ELSE IF s[i] = t[i] THEN StrLtFrom(s, t, i + 1)
  ELSE Ord[s[i]] < Ord[t[i]]

StrLt(s, t) == StrLtFrom(s, t, 1)

\* The result of a call: a value returned, or an exception raised (and then
\* no value).
NoException == [type |-> "", msg |-> None]

NoValue == [type |-> "NoValue"]

Return(v) == [ok |-> TRUE, val |-> v, exc |-> NoException]

Raise(type, msg) ==
  [ok |-> FALSE, val |-> NoValue, exc |-> [type |-> type, msg |-> msg]]

(***************************************************************************)
(* class Wheel                                                             *)
(***************************************************************************)

\* The position after the longest run of characters of class cls that
\* starts at position i of s (i itself when the run is empty).
RECURSIVE RunEnd(_, _, _)
RunEnd(s, i, cls) ==
  IF i <= Len(s) /\ InClass(s[i], cls) THEN RunEnd(s, i + 1, cls) ELSE i

IsAt(s, i, c) == i <= Len(s) /\ s[i] = c

\* The items of a pattern: a literal character, a named group that is a
\* greedy run of one class with a least length, and the lazy repetition
\* (?:[\+-](?P<build>\w+))*? .
Lit(c) == [kind |-> "lit", c |-> c, name |-> "", cls |-> "", least |-> 1]

Group(name, cls, least) ==
  [kind |-> "group", c |-> "", name |-> name, cls |-> cls, least |-> least]

Builds == [kind |-> "builds", c |-> "", name |-> "build", cls |-> "w", least |-> 1]

\* (?P<arch>\w+)/(?P<name>[\w.]+)-(?P<version>(?:[\w\.]+)?)
\* (?:[\+-](?P<build>\w+))*?-(?P<python>[\w\.]+)-(?P<abi>\w+)-(?P<platform>\w+)
WHEEL_RE_pattern ==
  << Group("arch", "w", 1), Lit("/"), Group("name", "wd", 1), Lit("-"),
     Group("version", "wd", 0), Builds,
     Lit("-"), Group("python", "wd", 1), Lit("-"), Group("abi", "w", 1),
     Lit("-"), Group("platform", "w", 1) >>

NoMatch == [matched |-> FALSE, groups |-> << >>]

\* The match of the items of pat from the i-th on at position p of s, the
\* groups matched so far being groups.  Each greedy run of the pattern is
\* followed by a literal outside its class (or by the end of the pattern),
\* so only the longest run, which ends before position e, can lead to a
\* match.  The repetition of the build item is lazy: the rest of the pattern
\* is tried first (rest is its match) and one more build token is consumed
\* only when the rest does not match here; the group keeps the last token.
RECURSIVE Match(_, _, _, _, _)
RECURSIVE MatchGroup(_, _, _, _, _, _)
RECURSIVE MatchBuilds(_, _, _, _, _, _)
Match(s, p, pat, i, groups) ==
  IF i > Len(pat) THEN [matched |-> TRUE, groups |-> groups]
  ELSE IF pat[i].kind = "lit"
  THEN IF IsAt(s, p, pat[i].c) THEN Match(s, p + 1, pat, i + 1, groups)
       ELSE NoMatch
  ELSE IF pat[i].kind = "group"
  THEN MatchGroup(s, p, RunEnd(s, p, pat[i].cls), pat, i, groups)
  ELSE MatchBuilds(s, p, pat, i, groups, Match(s, p, pat, i + 1, groups))

MatchGroup(s, p, e, pat, i, groups) ==
  IF e - p >= pat[i].least
  THEN Match(s, e, pat, i + 1, (pat[i].name :> SubSeq(s, p, e - 1)) @@ groups)
  ELSE NoMatch

MatchBuilds(s, p, pat, i, groups, rest) ==
  IF rest.matched THEN rest
  ELSE IF (IsAt(s, p, "+") \/ IsAt(s, p, "-")) /\ RunEnd(s, p + 1, "w") > p + 1
  THEN Match(s, RunEnd(s, p + 1, "w"), pat, i,
             ("build" :> SubSeq(s, p + 1, RunEnd(s, p + 1, "w") - 1)) @@ groups)
  ELSE NoMatch

\* WHEEL_RE.match with the build group '' when it took no part in the match.
WHEEL_RE_BuildEmpty(s) == Match(s, 1, WHEEL_RE_pattern, 1, [build |-> << >>])

\* WHEEL_RE.match(s): anchored at the start, not at the end; a group that
\* took no part in the match is None.
WHEEL_RE(s) == Match(s, 1, WHEEL_RE_pattern, 1, [build |-> None])

CouldNotGetTags ==
  << "C", "o", "u", "l", "d", " ", "n", "o", "t", " ", "g", "e", "t", " ",
     "t", "a", "g", "s", " ", "f", "o", "r", " ", ":", " " >>

\* The tags set with an error message that does not quote the filename.
SetTags_NoPath(wheel, m) ==
  IF m.matched THEN Return(m.groups) ELSE Raise("Exception", CouldNotGetTags)

\* The attributes parse_tags sets from the match m, or the exception it
\* raises when there is none.
SetTags(wheel, m) ==
  IF m.matched THEN Return(m.groups)
  ELSE Raise("Exception", CouldNotGetTags \o wheel)

\* Wheel.parse_tags
parse_tags(wheel) == SetTags(wheel, WHEEL_RE(wheel))

\* The class attributes of Wheel, read when an instance has no attribute of
\* that name.
ClassAttrs ==
  [a \in {"filename", "arch", "name", "version", "build", "python", "abi",
          "platform"} |-> << >>]

\* The instance whose __dict__ is dict.
Instance(dict) == [type |-> "Wheel", dict |-> dict]

\* The instance made once the tags are parsed: they are set on top of dict,
\* or the exception goes on.
Parse(dict, tags) ==
  IF tags.ok THEN Return(Instance(tags.val @@ dict)) ELSE tags

\* Wheel(filename, parse, **kwargs): self.filename is set, then the keyword
\* arguments, then the parsed tags.
Wheel(filename, parse, kwargs) ==
  IF parse THEN Parse(kwargs @@ [filename |-> filename], parse_tags(filename))
  ELSE Return(Instance(kwargs @@ [filename |-> filename]))

\* getattr(wheel, attr)
getattr(wheel, attr) ==
  IF attr \in DOMAIN wheel.dict THEN wheel.dict[attr] ELSE ClassAttrs[attr]

\* Wheel.__eq__
Wheel_eq(self, other) == other.type = "Wheel" /\ self.dict = other.dict

\* Wheel.__str__
Wheel_str(self) == self.dict.filename

(***************************************************************************)
(* Module constants                                                        *)
(***************************************************************************)

S_avx == << "a", "v", "x" >>

S_avx2 == << "a", "v", "x", "2" >>

S_sse3 == << "s", "s", "e", "3" >>

S_generic == << "g", "e", "n", "e", "r", "i", "c" >>

S_27 == << "2", ".", "7" >>

S_35 == << "3", ".", "5" >>

S_36 == << "3", ".", "6" >>

S_37 == << "3", ".", "7" >>

S_py2py3 == << "p", "y", "2", ".", "p", "y", "3" >>

S_py2 == << "p", "y", "2" >>

S_py3 == << "p", "y", "3" >>

S_cp27 == << "c", "p", "2", "7" >>

S_cp35 == << "c", "p", "3", "5" >>

S_cp36 == << "c", "p", "3", "6" >>

S_cp37 == << "c", "p", "3", "7" >>

AVAILABLE_ARCHITECTURES == << S_avx, S_avx2, S_sse3, S_generic >>

\* ['generic', CURRENT_ARCHITECTURE] for a value of the RSNT_ARCH variable
\* (None when it is unset).
ARCHITECTURES(CURRENT_ARCHITECTURE) == << S_generic, CURRENT_ARCHITECTURE >>

AVAILABLE_PYTHONS == << S_27, S_35, S_36, S_37 >>

COMPATIBLE_PYTHON ==
  [p \in {S_27, S_35, S_36, S_37} |->
     IF p = S_27 THEN << S_py2py3, S_py2, S_cp27 >>
     ELSE IF p = S_35 THEN << S_py2py3, S_py3, S_cp35 >>
     ELSE IF p = S_36 THEN << S_py2py3, S_py3, S_cp36 >>
     ELSE << S_py2py3, S_py3, S_cp37 >>]

AVAILABLE_HEADERS ==
  << "name", "version", "build", "python", "abi", "platform", "arch" >>

HEADERS == << "name", "version", "build", "python", "arch" >>

(***************************************************************************)
(* get_wheels                                                              *)
(***************************************************************************)

\* x in lst, for a Python list
In(x, lst) == \E i \in 1..Len(lst) : lst[i] = x

\* re.match(re.compile(fnmatch.translate(pat), re.IGNORECASE), s) from
\* position i of pat and j of s: '*' matches any run, '?' any one character,
\* any other character itself without regard to case; the whole of s must
\* be matched.
RECURSIVE GlobFrom(_, _, _, _)
GlobFrom(pat, s, i, j) ==
  IF i > Len(pat) THEN j > Len(s)
  ELSE IF pat[i] = "*"
  THEN GlobFrom(pat, s, i + 1, j) \/ (j <= Len(s) /\ GlobFrom(pat, s, i, j + 1))
  ELSE /\ j <= Len(s)
       /\ pat[i] = "?" \/ LowerChar(pat[i]) = LowerChar(s[j])
       /\ GlobFrom(pat, s, i + 1, j + 1)

fnmatch(pat, s) == GlobFrom(pat, s, 1, 1)

\* f"{name}*{version}*.whl"
WheelGlob(name, version) ==
  name \o << "*" >> \o version \o << "*", ".", "w", "h", "l" >>

\* The files of the triples os.walk(top) yields, in its order: those of the
\* directory, then those of each subdirectory in turn.  A directory is a
\* record [files, dirs].
RECURSIVE WalkFiles(_)
RECURSIVE WalkDirs(_, _)
WalkFiles(dir) == dir.files \o WalkDirs(dir.dirs, 1)

WalkDirs(dirs, i) ==
  IF i > Len(dirs) THEN << >>
  ELSE WalkFiles(dirs[i]) \o WalkDirs(dirs, i + 1)

\* os.walk that falls back on the generic directory when the directory of
\* the architecture does not exist.
os_walk_Generic(house, arch) ==
  IF Str(arch) \in DOMAIN house THEN WalkFiles(house[Str(arch)])
  ELSE IF S_generic \in DOMAIN house THEN WalkFiles(house[S_generic])
  ELSE << >>

\* os.walk that yields the files of the top directory only.
os_walk_TopOnly(house, arch) ==
  IF Str(arch) \in DOMAIN house THEN house[Str(arch)].files ELSE << >>

\* os.walk(f"{path}/{arch}"): a directory that does not exist yields
\* nothing (os.walk ignores the error of listing it).
os_walk(house, arch) ==
  IF Str(arch) \in DOMAIN house THEN WalkFiles(house[Str(arch)]) ELSE << >>

\* The files found under the directory of arch, each with arch.
Under(arch, files) == [k \in 1..Len(files) |-> [arch |-> arch, file |-> files[k]]]

\* The (arch, file) pairs the two outer loops of get_wheels visit.
RECURSIVE Visits(_, _, _)
Visits(house, archs, i) ==
  IF i > Len(archs) THEN << >>
  ELSE Under(archs[i], os_walk(house, archs[i])) \o Visits(house, archs, i + 1)

\* A dict is the sequence of its items [k, v] in insertion order.
DictIndex(d, key) ==
  IF \E i \in 1..Len(d) : d[i].k = key
  THEN CHOOSE i \in 1..Len(d) : d[i].k = key
  ELSE 0

DictKeys(d) == {d[i].k : i \in 1..Len(d)}

DictGet(d, key) == d[DictIndex(d, key)].v

\* wheels[name] = [wheel] whether the name is in wheels or not.
DictAppend_Overwrite(d, key, x) ==
  IF DictIndex(d, key) > 0
  THEN [d EXCEPT ![DictIndex(d, key)].v = << x >>]
  ELSE Append(d, [k |-> key, v |-> << x >>])

\* wheels[name].append(wheel) if name in wheels else wheels[name] = [wheel]
DictAppend(d, key, x) ==
  IF DictIndex(d, key) > 0
  THEN [d EXCEPT ![DictIndex(d, key)].v = Append(@, x)]
  ELSE Append(d, [k |-> key, v |-> << x >>])

\* The value None where a list is expected (a list holds strings only).
NoneList == << None >>

\* The loop "for p in pythons" that stops at the first requested python.
PythonLoop_FirstOnly(wheel, pythons, i) ==
  IF i > Len(pythons) THEN Return(FALSE)
  ELSE IF pythons[i] \notin DOMAIN COMPATIBLE_PYTHON
  THEN Raise("KeyError", pythons[i])
  ELSE Return(In(getattr(wheel, "python"), COMPATIBLE_PYTHON[pythons[i]]))

\* The loop "for p in pythons" of get_wheels, from the i-th requested python
\* on: whether it reaches the append (and the break) for this wheel.
RECURSIVE PythonLoop(_, _, _)
PythonLoop(wheel, pythons, i) ==
  IF i > Len(pythons) THEN Return(FALSE)
  ELSE IF pythons[i] \notin DOMAIN COMPATIBLE_PYTHON
  THEN Raise("KeyError", pythons[i])
  ELSE IF In(getattr(wheel, "python"), COMPATIBLE_PYTHON[pythons[i]])
  THEN Return(TRUE)
  ELSE PythonLoop(wheel, pythons, i + 1)

\* Iterating None raises TypeError.
is_compatible(wheel, pythons) ==
  IF pythons = NoneList THEN Raise("TypeError", None)
  ELSE PythonLoop(wheel, pythons, 1)

\* The python loop that leaves out a file whose name does not parse.
Filter_SkipUnparsed(wheel, pythons, wheels) ==
  IF ~wheel.ok THEN Return(wheels)
  ELSE IF ~is_compatible(wheel.val, pythons).ok
  THEN is_compatible(wheel.val, pythons)
  ELSE IF is_compatible(wheel.val, pythons).val
  THEN Return(DictAppend(wheels, getattr(wheel.val, "name"), wheel.val))
  ELSE Return(wheels)

\* The python loop for the wheel made from a file: the mapping with the
\* wheel appended under its name when the loop reaches the append.
Filter(wheel, pythons, wheels) ==
  IF ~wheel.ok THEN wheel
  ELSE IF ~is_compatible(wheel.val, pythons).ok
  THEN is_compatible(wheel.val, pythons)
  ELSE IF is_compatible(wheel.val, pythons).val
  THEN Return(DictAppend(wheels, getattr(wheel.val, "name"), wheel.val))
  ELSE Return(wheels)

\* The body of the loop "for file in files" for the visited file v.
Visit(v, rex, pythons, wheels) ==
  IF fnmatch(rex, v.file)
  THEN Filter(Wheel(Str(v.arch) \o << "/" >> \o v.file, TRUE, << >>),
              pythons, wheels)
  ELSE Return(wheels)

\* The loops of get_wheels from the i-th visited file on, wheels being the
\* mapping built so far, or the exception raised, which ends the loops.
RECURSIVE Collect(_, _, _, _, _)
Collect(visits, i, rex, pythons, wheels) ==
  IF ~wheels.ok \/ i > Len(visits) THEN wheels
  ELSE Collect(visits, i + 1, rex, pythons,
               Visit(visits[i], rex, pythons, wheels.val))

(***************************************************************************)
(* distutils.version.LooseVersion                                          *)
(***************************************************************************)

\* The kind of component a character belongs to in
\* component_re = (\d+ | [a-z]+ | \.): a run of digits, a run of lower-case
\* letters, a dot, or the text re.split leaves between two matches.
CharKind(c) ==
  IF c \in Digits THEN "digits"
  ELSE IF c \in Lowers THEN "letters"
  ELSE IF c = "." THEN "dot"
  ELSE "other"

RECURSIVE KindEnd(_, _, _)
KindEnd(s, i, kind) ==
  IF i <= Len(s) /\ CharKind(s[i]) = kind THEN KindEnd(s, i + 1, kind) ELSE i

\* int(digits)
RECURSIVE IntOf(_, _, _)
IntOf(s, i, acc) ==
  IF i > Len(s) THEN acc ELSE IntOf(s, i + 1, 10 * acc + DigitValue(s[i]))

\* One component: a digit run is converted to int, any other is kept.
Component(sub) ==
  IF CharKind(sub[1]) = "digits"
  THEN [int |-> TRUE, n |-> IntOf(sub, 1, 0), s |-> << >>]
  ELSE [int |-> FALSE, n |-> 0, s |-> sub]

\* LooseVersion.parse: the components of vstring from position i on, the
\* dots dropped.
RECURSIVE Components(_, _)
Components(s, i) ==
  IF i > Len(s) THEN << >>
  ELSE IF s[i] = "." THEN Components(s, i + 1)
  ELSE << Component(SubSeq(s, i, KindEnd(s, i, CharKind(s[i])) - 1)) >>
         \o Components(s, KindEnd(s, i, CharKind(s[i])))

\* LooseVersion(vstring): __init__ parses a non-empty vstring only, so the
\* object made from '' has no attribute version.
LooseVersion(vstring) ==
  IF vstring = << >> THEN [parsed |-> FALSE, version |-> << >>]
  ELSE [parsed |-> TRUE, version |-> Components(vstring, 1)]

\* Wheel.loose_version
loose_version(wheel) == LooseVersion(getattr(wheel, "version"))

\* LooseVersion._cmp on the component lists from position i on: equal lists
\* give 0; otherwise the first differing pair is compared with <, which
\* Python 3 refuses between an int and a str.
RECURSIVE CmpFrom(_, _, _)
CmpFrom(u, v, i) ==
  IF i > Len(u) \/ i > Len(v)
  THEN Return(IF Len(u) = Len(v) THEN 0 ELSE IF Len(u) < Len(v) THEN -1 ELSE 1)
  ELSE IF u[i] = v[i] THEN CmpFrom(u, v, i + 1)
  ELSE IF u[i].int # v[i].int THEN Raise("TypeError", None)
  ELSE IF u[i].int THEN Return(IF u[i].n < v[i].n THEN -1 ELSE 1)
  ELSE Return(IF StrLt(u[i].s, v[i].s) THEN -1 ELSE 1)

LooseVersion_cmp(self, other) ==
  IF ~self.parsed \/ ~other.parsed THEN Raise("AttributeError", None)
  ELSE CmpFrom(self.version, other.version, 1)

\* c < 0 and c == 0 for the result c of _cmp.
Negative(c) == IF c.ok THEN Return(c.val < 0) ELSE c

Zero(c) == IF c.ok THEN Return(c.val = 0) ELSE c

\* LooseVersion.__lt__
LooseVersion_lt(self, other) == Negative(LooseVersion_cmp(self, other))

\* LooseVersion.__eq__
LooseVersion_eq(self, other) == Zero(LooseVersion_cmp(self, other))

(***************************************************************************)
(* list.sort(key=..., reverse=...) on lists shorter than 64 items          *)
(***************************************************************************)

\* key(a) < key(b) for the three keys the program sorts wheels by, and for
\* str.casefold on names.
KeyLt(key, a, b) ==
  IF key = "loose_version" THEN LooseVersion_lt(loose_version(a), loose_version(b))
  ELSE IF key = "casefold" THEN Return(StrLt(casefold(a), casefold(b)))
  ELSE Return(StrLt(getattr(a, key), getattr(b, key)))

Reverse(s) == [i \in 1..Len(s) |-> s[Len(s) + 1 - i]]

\* count_run: the length of the run the list starts with, s[1..n] being in
\* it already; the run is strictly descending or else non-descending.  lt
\* is the result of comparing s[n + 1] with s[n].
RECURSIVE CountRun(_, _, _, _)
RECURSIVE RunGoesOn(_, _, _, _, _)
CountRun(key, s, n, descending) ==
  IF n = Len(s) THEN Return(n)
  ELSE RunGoesOn(key, s, n, descending, KeyLt(key, s[n + 1], s[n]))

RunGoesOn(key, s, n, descending, lt) ==
  IF ~lt.ok THEN lt
  ELSE IF lt.val = descending THEN CountRun(key, s, n + 1, descending)
  ELSE Return(n)

\* The loop of binarysort that finds where pivot goes in the sorted
\* s[l..r-1]: p is the middle and lt the result of comparing pivot with s[p].
RECURSIVE BinarySearch(_, _, _, _, _)
RECURSIVE Halve(_, _, _, _, _, _, _)
BinarySearch(key, s, pivot, l, r) ==
  Halve(key, s, pivot, l, r, l + ((r - l) \div 2),
        KeyLt(key, pivot, s[l + ((r - l) \div 2)]))

Halve(key, s, pivot, l, r, p, lt) ==
  IF ~lt.ok THEN lt
  ELSE IF lt.val
  THEN IF l < p THEN BinarySearch(key, s, pivot, l, p) ELSE Return(l)
  ELSE IF p + 1 < r THEN BinarySearch(key, s, pivot, p + 1, r)
  ELSE Return(p + 1)

\* binarysort: s[1..start-1] is sorted; insert s[start], s[start+1], ...
\* each at the place l the search finds.
RECURSIVE BinarySort(_, _, _)
RECURSIVE Insert(_, _, _, _)
BinarySort(key, s, start) ==
  IF start > Len(s) THEN Return(s)
  ELSE Insert(key, s, start, BinarySearch(key, s, s[start], 1, start))

Insert(key, s, start, l) ==
  IF ~l.ok THEN l
  ELSE BinarySort(key,
         SubSeq(s, 1, l.val - 1) \o << s[start] >>
           \o SubSeq(s, l.val, start - 1)
           \o SubSeq(s, start + 1, Len(s)),
         start + 1)

\* The run the list starts with is made ascending and the rest is inserted
\* into it.
SortRun(key, s, descending, run) ==
  IF ~run.ok THEN run
  ELSE BinarySort(key,
         IF descending
         THEN Reverse(SubSeq(s, 1, run.val)) \o SubSeq(s, run.val + 1, Len(s))
         ELSE s,
         run.val + 1)

\* lt is the result of comparing s[2] with s[1], which says whether the
\* first run is descending.
SortFrom2(key, s, lt) ==
  IF ~lt.ok THEN lt
  ELSE SortRun(key, s, lt.val, CountRun(key, s, 2, lt.val))

Sorted(key, s) == SortFrom2(key, s, KeyLt(key, s[2], s[1]))

Reversed(r) == IF r.ok THEN Return(Reverse(r.val)) ELSE r

\* list.sort: with reverse the list is reversed before and after, which
\* keeps the sort stable.
list_sort(s, key, reverse) ==
  IF Len(s) < 2 THEN Return(s)
  ELSE IF reverse THEN Reversed(Sorted(key, Reverse(s)))
  ELSE Sorted(key, s)

(***************************************************************************)
(* latest_versions                                                         *)
(***************************************************************************)

\* The loop "for wheel in wheel_list" from the i-th wheel on, kept being
\* latests[wheel_name] so far; eq is the result of latest == the version of
\* the i-th wheel.
RECURSIVE KeepLatest(_, _, _, _)
RECURSIVE KeepIf(_, _, _, _, _)
KeepLatest(wheel_list, latest, i, kept) ==
  IF i > Len(wheel_list) THEN Return(kept)
  ELSE KeepIf(wheel_list, latest, i, kept,
              LooseVersion_eq(latest, loose_version(wheel_list[i])))

KeepIf(wheel_list, latest, i, kept, eq) ==
  IF ~eq.ok THEN eq
  ELSE IF eq.val
  THEN KeepLatest(wheel_list, latest, i + 1, Append(kept, wheel_list[i]))
  ELSE Return(kept)

\* The body of the loop over wheels.items() once wheel_list is sorted:
\* wheel_list[0] raises IndexError on an empty list.
Latest(wheel_list) ==
  IF ~wheel_list.ok THEN wheel_list
  ELSE IF Len(wheel_list.val) = 0 THEN Raise("IndexError", None)
  ELSE KeepLatest(wheel_list.val, loose_version(wheel_list.val[1]), 1, << >>)

\* latests[wheel_name] = kept
SetItem(latests, wheel_name, kept) ==
  IF ~kept.ok THEN kept
  ELSE Return(Append(latests, [k |-> wheel_name, v |-> kept.val]))

\* The loop over wheels.items() from the i-th item on, latests being the
\* mapping built so far, or the exception raised.
RECURSIVE LatestFrom(_, _, _)
LatestFrom(wheels, i, latests) ==
  IF ~latests.ok \/ i > Len(wheels) THEN latests
  ELSE LatestFrom(wheels, i + 1,
         SetItem(latests.val, wheels[i].k,
                 Latest(list_sort(wheels[i].v, "loose_version", TRUE))))

latest_versions(wheels) == LatestFrom(wheels, 1, Return(<< >>))

\* return latest_versions(wheels) if latest else wheels
Returned(wheels, latest) ==
  IF wheels.ok /\ latest THEN latest_versions(wheels.val) ELSE wheels

\* get_wheels(path, archs, name, version, pythons, latest), path being the
\* root of the wheelhouse house.
get_wheels(house, archs, name, version, pythons, latest) ==
  Returned(Collect(Visits(house, archs, 1), 1, WheelGlob(name, version),
                   pythons, Return(<< >>)),
           latest)

(***************************************************************************)
(* sort                                                                    *)
(***************************************************************************)

\* The rows of one sorted wheel list.
Rows(wheel_list, columns) ==
  [i \in 1..Len(wheel_list) |->
     [j \in 1..Len(columns) |-> getattr(wheel_list[i], columns[j])]]

\* The three sorts of one wheel list; the sorts by python and by arch
\* compare strings and raise nothing.
Sort3(wheel_list) ==
  list_sort(list_sort(list_sort(wheel_list, "python", TRUE).val,
                      "arch", TRUE).val,
            "loose_version", TRUE)

\* ret.append(...) for each wheel of the sorted list.
Extend(rows, wheel_list, columns) ==
  IF ~wheel_list.ok THEN wheel_list
  ELSE Return(rows \o Rows(wheel_list.val, columns))

\* The loop over wheel_names from the i-th name on, rows being ret so far,
\* or the exception raised.
RECURSIVE SortFrom(_, _, _, _, _)
SortFrom(wheels, wheel_names, columns, i, rows) ==
  IF ~rows.ok \/ i > Len(wheel_names) THEN rows
  ELSE SortFrom(wheels, wheel_names, columns, i + 1,
         Extend(rows.val, Sort3(DictGet(wheels, wheel_names[i])), columns))

\* sorted(wheels.keys(), key=lambda s: s.casefold())
WheelNames(wheels) ==
  list_sort([i \in 1..Len(wheels) |-> wheels[i].k], "casefold", FALSE).val

sort(wheels, columns) ==
  SortFrom(wheels, WheelNames(wheels), columns, 1, Return(<< >>))

(***************************************************************************)
(* Inputs: filenames given to Wheel                                        *)
(***************************************************************************)

\* The most build tags a filename of the model carries.
MaxBuildTags == 1

\* The lists of k items of S, and those of at most n.
RECURSIVE SeqsOfLen(_, _)
SeqsOfLen(S, k) ==
  IF k = 0 THEN {<< >>} ELSE {Append(s, x) : s \in SeqsOfLen(S, k - 1), x \in S}

SeqsUpTo(S, n) == UNION {SeqsOfLen(S, k) : k \in 0..n}

P_archs == {S_avx2}

P_names == {<< "n", "c" >>, << "b", ".", "f" >>}

P_versions == {<< "1", ".", "0" >>, << "1" >>, << "1", ".", "a", "1" >>}

P_builds == {<< "c", "c" >>, << "1" >>}

P_pythons == {S_cp36, S_py2py3}

P_abis == {<< "c", "p", "3", "6", "m" >>, << "n", "o", "n", "e" >>}

P_platforms == {<< "a", "n", "y" >>, << "l", "_", "6", "4" >>}

Defects == {"none", "missing_name", "bad_sep", "missing_sep"}

\* What a filename is made of: the tokens, the build tags with the
\* separator that introduces each, and the defect it has, if any.
Shapes ==
  [arch : P_archs, name : P_names, version : P_versions,
   builds : SeqsUpTo([sep : {"+", "-"}, tag : P_builds], MaxBuildTags),
   python : P_pythons, abi : P_abis, platform : P_platforms,
   defect : Defects]

RECURSIVE RenderBuilds(_, _)
RenderBuilds(builds, i) ==
  IF i > Len(builds) THEN << >>
  ELSE << builds[i].sep >> \o builds[i].tag \o RenderBuilds(builds, i + 1)

\* The filename of a shape:
\* <arch>/<name>-<version>[<sep><build>]-<python>-<abi>-<platform>.whl,
\* without the name and its dash, with a dot before the python tag, or with
\* nothing between the python and the abi tags.
Render(sh) ==
  sh.arch \o << "/" >>
    \o (IF sh.defect = "missing_name" THEN << >> ELSE sh.name \o << "-" >>)
    \o sh.version \o RenderBuilds(sh.builds, 1)
    \o (IF sh.defect = "bad_sep" THEN << "." >> ELSE << "-" >>)
    \o sh.python
    \o (IF sh.defect = "missing_sep" THEN << >> ELSE << "-" >>)
    \o sh.abi \o << "-" >> \o sh.platform \o << ".", "w", "h", "l" >>

Filenames == {Render(sh) : sh \in Shapes}

(***************************************************************************)
(* The state machine: calls of the functions of the module                 *)
(***************************************************************************)

Init ==
  /\ pc = "start"
  /\ wheelhouse = << >>
  /\ args = << >>
  /\ ret = NoValue
  /\ raised = NoException

\* The call fn(a) has the result r; no call changes the wheelhouse.
Called(fn, a, r) ==
  /\ pc' = fn
  /\ args' = a
  /\ ret' = r.val
  /\ raised' = r.exc
  /\ UNCHANGED wheelhouse

\* Wheel(filename): the constructor parses the filename.
NewWheel ==
  /\ pc = "start"
  /\ \E filename \in Filenames :
       Called("Wheel", [filename |-> filename, parse |-> TRUE, kwargs |-> << >>],
              Wheel(filename, TRUE, << >>))

\* The operands of ==: Wheel(filename, parse=..., **kwargs) for these
\* arguments, and a str.
Eq_filenames == {<< "f" >>, S_avx2 \o << "/", "n", "-", "1", "-" >> \o S_py3
                              \o << "-", "n", "-", "a", ".", "w", "h", "l" >>}

Eq_kwargs ==
  { << >>,
    [arch |-> << >>],
    [arch |-> S_avx2],
    [arch |-> S_avx2, name |-> << "n" >>, version |-> << "1" >>,
     build |-> None, python |-> S_py3, abi |-> << "n" >>,
     platform |-> << "a" >>] }

Eq_operands ==
  {r \in [filename : Eq_filenames, parse : BOOLEAN, kwargs : Eq_kwargs] :
     Wheel(r.filename, r.parse, r.kwargs).ok}

\* a == b for two wheels.
WheelEq ==
  /\ pc = "start"
  /\ \E a \in Eq_operands, b \in Eq_operands :
       Called("Wheel.__eq__", [self |-> a, other |-> b],
              Return(Wheel_eq(Wheel(a.filename, a.parse, a.kwargs).val,
                              Wheel(b.filename, b.parse, b.kwargs).val)))

\* a == b for a wheel and its filename, a str.
WheelEqStr ==
  /\ pc = "start"
  /\ \E a \in Eq_operands :
       Called("Wheel.__eq__str", [self |-> a],
              Return(Wheel_eq(Wheel(a.filename, a.parse, a.kwargs).val,
                              [type |-> "str", value |-> a.filename])))

(***************************************************************************)
(* Inputs: wheelhouses and the arguments of get_wheels                     *)
(***************************************************************************)

\* The most files a directory of the model holds, subdirectory included.
MaxFiles == 2

S_tail == << "-", "n", "o", "n", "e", "-", "a", "n", "y" >>

S_whl == << ".", "w", "h", "l" >>

\* The filenames found in the wheelhouses: wheels of a and of A, one whose
\* name does not parse (a dot before the python tag), and a file that is not
\* a wheel.
FilePool ==
  << << "a", "-", "1", ".", "0", "-" >> \o S_cp36 \o S_tail \o S_whl,
     << "A", "-", "1", ".", "1", "-" >> \o S_py2py3 \o S_tail \o S_whl,
     << "a", "-", "1", ".", "0", "-" >> \o S_cp27 \o S_tail \o S_whl,
     << "a", "-", "1", ".", "0", "." >> \o S_cp36 \o S_tail \o S_whl,
     << "a", "-", "1", ".", "0", "-" >> \o S_py3 \o S_tail \o << ".", "t", "x", "t" >> >>

\* The files of the pool at the positions I, in the order of the pool.
RECURSIVE Pick(_, _)
Pick(I, i) ==
  IF i > Len(FilePool) THEN << >>
  ELSE (IF i \in I THEN << FilePool[i] >> ELSE << >>) \o Pick(I, i + 1)

\* A directory with the files I and, when J is not empty, a subdirectory
\* with the files J. The directories of the model hold at most one file in
\* the subdirectory.
Directory(I, J) ==
  [files |-> Pick(I, 1),
   dirs |-> IF J = {} THEN << >> ELSE << [files |-> Pick(J, 1), dirs |-> << >>] >>]

Directories ==
  {Directory(I, J) : <<I, J>> \in
     {IJ \in (SUBSET (1..Len(FilePool))) \X (SUBSET (1..Len(FilePool))) :
        /\ IJ[1] \cap IJ[2] = {}
        /\ \A i, j \in IJ[2] : i = j
        /\ Cardinality(IJ[1] \cup IJ[2]) <= MaxFiles}}

\* A wheelhouse is the function from the names of its directories to them:
\* generic holds any directory of the model, avx2 two wheels, and there is
\* no other directory.
Wheelhouses ==
  {(S_generic :> d) @@ (S_avx2 :> Directory({1, 2}, {})) : d \in Directories}

ArchLists ==
  { << S_sse3 >>, ARCHITECTURES(None), ARCHITECTURES(S_avx2),
    << S_avx2, S_avx2 >>, << S_sse3, S_generic >> }

NameGlobs == {<< >>, << "a" >>}

VersionGlobs == {<< >>, << "1", ".", "0" >>}

RequestedPythons ==
  {NoneList, << >>, << S_36 >>, AVAILABLE_PYTHONS}

\* The directories of the wheelhouse are made and filled.
MakeWheelhouse ==
  /\ pc = "start"
  /\ pc' = "wheelhouse"
  /\ wheelhouse' \in Wheelhouses
  /\ UNCHANGED <<args, ret, raised>>

\* get_wheels(path, archs, name, version, pythons, latest) on the
\* wheelhouse at path.
GetWheels ==
  /\ pc = "wheelhouse"
  /\ \E archs \in ArchLists, name \in NameGlobs, version \in VersionGlobs,
        pythons \in RequestedPythons, latest \in BOOLEAN :
       Called("get_wheels",
              [archs |-> archs, name |-> name, version |-> version,
               pythons |-> pythons, latest |-> latest],
              get_wheels(wheelhouse, archs, name, version, pythons, latest))

(***************************************************************************)
(* Inputs: wheels, python lists and mappings of wheels                     *)
(***************************************************************************)

\* The most requested pythons in a list, the whole of AVAILABLE_PYTHONS
\* apart.
MaxPythons == 2

\* The most wheels in a mapping given to latest_versions and to sort.
MaxWheels == 3

PythonLists ==
  SeqsUpTo({S_27, S_35, S_36, S_37}, MaxPythons) \cup {AVAILABLE_PYTHONS, NoneList}

\* <arch>/<name>-<version>-<python>-none-any.whl
WheelFile(arch, name, version, python) ==
  arch \o << "/" >> \o name \o << "-" >> \o version \o << "-" >> \o python
    \o S_tail \o S_whl

Parsed(filename) == Wheel(filename, TRUE, << >>).val

\* One wheel for each python tag of COMPATIBLE_PYTHON, and one for a tag
\* that is in none of its lists.
TaggedWheels ==
  {Parsed(WheelFile(S_avx, << "a" >>, << "1" >>, tag)) :
     tag \in {S_py2py3, S_py2, S_py3, S_cp27, S_cp35, S_cp36, S_cp37,
              << "c", "p", "3", "8" >>}}

\* The loop over pythons of get_wheels, for one wheel.
PythonFilter ==
  /\ pc = "start"
  /\ \E wheel \in TaggedWheels, pythons \in PythonLists :
       Called("is_compatible", [wheel |-> wheel, pythons |-> pythons],
              is_compatible(wheel, pythons))

\* Wheels of the names a and B: versions that are equal as versions but not
\* as strings (1.0 and 1.00), a higher version on two architectures and two
\* python tags, and a version Python cannot compare with them (1.a).
WheelPool ==
  { Parsed(WheelFile(S_avx,  << "a" >>, << "1", ".", "0" >>, S_cp27)),
    Parsed(WheelFile(S_avx2, << "a" >>, << "1", ".", "0", "0" >>, S_py3)),
    Parsed(WheelFile(S_avx,  << "a" >>, << "1", ".", "1" >>, S_py3)),
    Parsed(WheelFile(S_avx2, << "a" >>, << "1", ".", "1" >>, S_py3)),
    Parsed(WheelFile(S_avx,  << "a" >>, << "1", ".", "1" >>, S_cp27)),
    Parsed(WheelFile(S_avx,  << "a" >>, << "1", ".", "a" >>, S_py3)),
    Parsed(WheelFile(S_avx,  << "B" >>, << "1", ".", "0" >>, S_py3)) }

\* The mapping get_wheels builds from the wheels ws, visited in this order.
RECURSIVE GroupByName(_, _, _)
GroupByName(ws, i, wheels) ==
  IF i > Len(ws) THEN wheels
  ELSE GroupByName(ws, i + 1, DictAppend(wheels, getattr(ws[i], "name"), ws[i]))

\* Mappings of wheels: those get_wheels can build, and those with one more
\* name that has no wheel.
WheelDicts ==
  LET built == {GroupByName(ws, 1, << >>) : ws \in SeqsUpTo(WheelPool, MaxWheels)}
  IN  built \cup {Append(d, [k |-> << "e" >>, v |-> << >>]) :
                    d \in {b \in built : Len(b) <= 1 /\ \A i \in 1..Len(b) : Len(b[i].v) <= 1}}

ColumnLists == {HEADERS, << "platform", "abi", "name" >>}

\* latest_versions(wheels)
LatestVersions ==
  /\ pc = "start"
  /\ \E wheels \in WheelDicts :
       Called("latest_versions", [wheels |-> wheels], latest_versions(wheels))

\* sort(wheels, columns)
Sort ==
  /\ pc = "start"
  /\ \E wheels \in WheelDicts, columns \in ColumnLists :
       Called("sort", [wheels |-> wheels, columns |-> columns],
              sort(wheels, columns))

Next ==
  \/ NewWheel
  \/ WheelEq
  \/ WheelEqStr
  \/ PythonFilter
  \/ MakeWheelhouse
  \/ GetWheels
  \/ LatestVersions
  \/ Sort

Spec == Init /\ [][Next]_vars

(***************************************************************************)
(* Properties                                                              *)
(***************************************************************************)

\* The files the call of get_wheels in args visits, with their architecture.
Visited == Visits(wheelhouse, args.archs, 1)

\* f"{arch}/{file}" for a visited file.
Path(v) == Str(v.arch) \o << "/" >> \o v.file

Matches(v) == fnmatch(WheelGlob(args.name, args.version), v.file)

Parses(v) == Wheel(Path(v), TRUE, << >>).ok

Artifact(v) == Wheel(Path(v), TRUE, << >>).val

\* The python tag is in the list of compatible tags of a requested python.
CompatibleWith(wheel, pythons) ==
  \E i \in 1..Len(pythons) :
    /\ pythons[i] \in DOMAIN COMPATIBLE_PYTHON
    /\ In(getattr(wheel, "python"), COMPATIBLE_PYTHON[pythons[i]])

\* The wheels stored in a mapping, as the set of its (key, wheel) pairs.
Stored(wheels) ==
  UNION {{<<wheels[i].k, wheels[i].v[j]>> : j \in 1..Len(wheels[i].v)} :
           i \in 1..Len(wheels)}

\* What the call in args visits: per visited file, whether the glob matches
\* it and what Wheel makes of its path.
RECURSIVE ExaminedFrom(_, _)
ExaminedFrom(visited, k) ==
  IF k > Len(visited) THEN << >>
  ELSE << [matches |-> Matches(visited[k]),
           wheel |-> Wheel(Path(visited[k]), TRUE, << >>)] >>
         \o ExaminedFrom(visited, k + 1)

Examined == ExaminedFrom(Visited, 1)

\* Every visited file the glob matches parses (the error of one that does
\* not is what get_wheels raises).
MatchesParse(files) ==
  \A k \in DOMAIN files : files[k].matches => files[k].wheel.ok

\* The mapping holds the wheels of the files that match, parse and are
\* compatible with a requested python, and nothing else.
HoldsTheIncluded(files, stored, pythons) ==
  /\ \A k \in DOMAIN files :
       (\E kw \in stored : kw[2] = files[k].wheel.val)
         <=> /\ files[k].matches
             /\ files[k].wheel.ok
             /\ CompatibleWith(files[k].wheel.val, pythons)
  /\ \A kw \in stored :
       /\ \E k \in DOMAIN files : files[k].wheel.ok /\ kw[2] = files[k].wheel.val
       /\ kw[1] = getattr(kw[2], "name")

\* C1: get_wheels with latest=False and a list of requested pythons, on a
\* wheelhouse where every file the glob matches parses, returns a mapping
\* that holds the wheel of a visited file 'A/F' exactly when F matches the
\* glob, 'A/F' parses and the python tag is compatible with a requested
\* python; it holds nothing else, each wheel is under the key that is its
\* parsed name and no key is there twice.
C1_CollectsExactlyTheIncluded ==
  pc = "get_wheels" /\ ~args.latest /\ args.pythons # NoneList =>
    LET files == Examined
    IN  MatchesParse(files) =>
          /\ raised = NoException
          /\ HoldsTheIncluded(files, Stored(ret), args.pythons)
          /\ \A i, j \in 1..Len(ret) : ret[i].k = ret[j].k => i = j

\* Two wheels of one name from two architectures are returned, a wheel the
\* glob matches is left out for its python tag, and a file is left out by
\* the glob.
C1_Witness ==
  /\ pc = "get_wheels" /\ ~args.latest /\ args.pythons # NoneList
  /\ MatchesParse(Examined)
  /\ \E i \in 1..Len(ret) : Len(ret[i].v) >= 2
  /\ \E k \in 1..Len(Visited) :
       /\ Matches(Visited[k]) /\ Parses(Visited[k])
       /\ ~CompatibleWith(Artifact(Visited[k]), args.pythons)
  /\ \E k \in 1..Len(Visited) : ~Matches(Visited[k])

\* The number of times x is in the list s.
Count(s, x) == Cardinality({i \in 1..Len(s) : s[i] = x})

Range(s) == {s[i] : i \in 1..Len(s)}

\* version(a) >= version(b) and version(a) == version(b) under the loose
\* ordering.
VersionGe(a, b) ==
  /\ LooseVersion_cmp(loose_version(a), loose_version(b)).ok
  /\ LooseVersion_cmp(loose_version(a), loose_version(b)).val >= 0

VersionEq(a, b) ==
  /\ LooseVersion_cmp(loose_version(a), loose_version(b)).ok
  /\ LooseVersion_cmp(loose_version(a), loose_version(b)).val = 0

\* The wheel w is at the maximum version of the list.
AtMax(wheel_list, w) == \A i \in 1..Len(wheel_list) : VersionGe(w, wheel_list[i])

NonEmptyGroups(wheels) == \A i \in 1..Len(wheels) : Len(wheels[i].v) > 0

\* The output keeps the names and, of each group, as many times as it is in
\* the group each wheel at the maximum version, and no other wheel.
LatestKept(wheels, latests) ==
  /\ DictKeys(latests) = DictKeys(wheels)
  /\ Len(latests) = Len(wheels)
  /\ \A i \in 1..Len(wheels) :
       \A w \in Range(wheels[i].v) \cup Range(DictGet(latests, wheels[i].k)) :
         Count(DictGet(latests, wheels[i].k), w) =
           IF AtMax(wheels[i].v, w) THEN Count(wheels[i].v, w) ELSE 0

\* C2: for a mapping whose groups are not empty, latest_versions returns
\* the same names, and for each name exactly the wheels of the group whose
\* version is equal, under the loose ordering, to the maximum of the group.
C2_KeepsExactlyTheLatest ==
  pc = "latest_versions" /\ NonEmptyGroups(args.wheels) =>
    raised = NoException /\ LatestKept(args.wheels, ret)

\* All the wheels of a mapping.
RECURSIVE Flatten(_, _)
Flatten(wheels, i) ==
  IF i > Len(wheels) THEN << >> ELSE wheels[i].v \o Flatten(wheels, i + 1)

Orders(n) == {f \in [1..n -> 1..n] : \A i, j \in 1..n : f[i] = f[j] => i = j}

\* a may come right before b in the output of sort: the name of a is not
\* after that of b without regard to case, and in one group the version is
\* not lower, then the arch not lower, then the python tag not lower.
MayPrecede(a, b) ==
  IF getattr(a, "name") # getattr(b, "name")
  THEN StrLt(casefold(getattr(a, "name")), casefold(getattr(b, "name")))
  ELSE /\ VersionGe(a, b)
       /\ VersionEq(a, b) =>
            /\ ~StrLt(getattr(a, "arch"), getattr(b, "arch"))
            /\ getattr(a, "arch") = getattr(b, "arch") =>
                 ~StrLt(getattr(a, "python"), getattr(b, "python"))

\* C3: sort returns one row for each wheel, group by group with the names
\* in ascending order without regard to case, in a group by version, then
\* arch, then python tag, each descending; a row holds the values of the
\* requested columns in their order, None for a build that is absent.
C3_RowsInOrder ==
  pc = "sort" =>
    /\ raised = NoException
    /\ \E f \in Orders(Len(Flatten(args.wheels, 1))) :
         /\ \A i \in 1..(Len(f) - 1) :
              MayPrecede(Flatten(args.wheels, 1)[f[i]],
                         Flatten(args.wheels, 1)[f[i + 1]])
         /\ ret = Rows([i \in 1..Len(f) |-> Flatten(args.wheels, 1)[f[i]]],
                       args.columns)

Tag(wheel) == getattr(wheel, "python")

\* C4: for a non-empty list of supported pythons, the python loop accepts
\* the wheel exactly when its python tag is in the list of compatible tags
\* of one of them: cp27 goes with 2.7 and with the whole list and not with
\* 3.5, py2.py3 with every list.
C4_CompatibleIffInSomeList ==
  pc = "is_compatible" /\ args.pythons # NoneList /\ Len(args.pythons) > 0 =>
    /\ raised = NoException
    /\ ret <=> CompatibleWith(args.wheel, args.pythons)
    /\ Tag(args.wheel) = S_cp27 /\ args.pythons = << S_27 >> => ret
    /\ Tag(args.wheel) = S_cp27 /\ args.pythons = AVAILABLE_PYTHONS => ret
    /\ Tag(args.wheel) = S_cp27 /\ args.pythons = << S_35 >> => ~ret
    /\ Tag(args.wheel) = S_py2py3 => ret

\* A wheel that is compatible with the second requested python only.
C4_Witness ==
  /\ pc = "is_compatible" /\ args.pythons # NoneList /\ Len(args.pythons) = 2
  /\ ~In(Tag(args.wheel), COMPATIBLE_PYTHON[args.pythons[1]])
  /\ In(Tag(args.wheel), COMPATIBLE_PYTHON[args.pythons[2]])
  /\ ret = TRUE

WellFormed(sh) == sh.defect = "none"

\* The wheel Wheel(filename) is to return for a filename of shape sh with
\* the build tag build.
Expected(sh, build) ==
  [type |-> "Wheel",
   dict |-> [filename |-> Render(sh), arch |-> sh.arch, name |-> sh.name,
             version |-> sh.version, build |-> build, python |-> sh.python,
             abi |-> sh.abi, platform |-> sh.platform]]

ParsedAs(sh, build) ==
  Render(sh) = args.filename =>
    raised = NoException /\ ret = Expected(sh, build)

\* C5: a filename <arch>/<name>-<version>-<python>-<abi>-<platform>.whl
\* without build tag parses, every field is the token of the filename at its
\* place, and build is None (not the empty string).
C5_ParsesWithoutBuild ==
  pc = "Wheel" =>
    \A sh \in Shapes :
      WellFormed(sh) /\ sh.builds = << >> => ParsedAs(sh, None)

C5_Witness ==
  /\ pc = "Wheel"
  /\ \E sh \in Shapes :
       /\ WellFormed(sh) /\ sh.builds = << >> /\ Render(sh) = args.filename
       /\ sh.python = S_py2py3
  /\ raised = NoException
  /\ ret.dict.build = None

\* C6: a filename with one build tag, introduced by '+' or by '-', parses
\* with that tag as build and the tokens after it as python, abi and platform.
C6_ParsesWithBuild ==
  pc = "Wheel" =>
    \A sh \in Shapes :
      WellFormed(sh) /\ Len(sh.builds) = 1 => ParsedAs(sh, sh.builds[1].tag)

Malformed(sh) == sh.defect # "none"

Rejected(sh) ==
  Render(sh) = args.filename =>
    /\ raised = [type |-> "Exception", msg |-> CouldNotGetTags \o args.filename]
    /\ ret = NoValue

\* C7: every filename without its name, with a dot before the python tag or
\* with nothing between the python and the abi tags is rejected with the
\* error that quotes the filename, and no wheel is made.
C7_MalformedRejected ==
  pc = "Wheel" => \A sh \in Shapes : Malformed(sh) => Rejected(sh)

\* No build tag of the shape is introduced by a dash.
NoDashBuild(sh) == \A i \in 1..Len(sh.builds) : sh.builds[i].sep # "-"

\* C7, amended: a filename with one of the three defects and no build tag
\* introduced by a dash is rejected with the error that quotes the filename,
\* and no wheel is made. (With a dash before a build tag the filename still
\* has five tokens between dashes, and it parses.)
C7_MalformedRejectedNoDashBuild ==
  pc = "Wheel" =>
    \A sh \in Shapes : Malformed(sh) /\ NoDashBuild(sh) => Rejected(sh)

\* A filename with a build tag after '+' and nothing between the python and
\* the abi tags is rejected.
C7_Witness ==
  /\ pc = "Wheel"
  /\ \E sh \in Shapes :
       /\ sh.defect = "missing_sep" /\ sh.builds # << >> /\ NoDashBuild(sh)
       /\ Render(sh) = args.filename
  /\ raised = [type |-> "Exception", msg |-> CouldNotGetTags \o args.filename]
  /\ ret = NoValue

Fields ==
  {"filename", "arch", "name", "version", "build", "python", "abi", "platform"}

Made(r) == Wheel(r.filename, r.parse, r.kwargs).val

\* C8: two wheels are equal exactly when each field has the same value in
\* both, and a wheel is not equal to a str.
C8_EqualIffFieldsEqual ==
  /\ pc = "Wheel.__eq__" =>
       (ret <=> \A f \in Fields :
                  getattr(Made(args.self), f) = getattr(Made(args.other), f))
  /\ pc = "Wheel.__eq__str" => ~ret

NoPythons == {<< >>, NoneList}

\* C9: with no requested python, an empty list or None, the python loop
\* accepts no wheel and raises nothing, and get_wheels returns an empty
\* mapping.
C9_NoPythonsNothingReturned ==
  /\ pc = "is_compatible" /\ args.pythons \in NoPythons =>
       raised = NoException /\ ret = FALSE
  /\ pc = "get_wheels" /\ args.pythons \in NoPythons /\ MatchesParse(Examined) =>
       raised = NoException /\ ret = << >>

\* The requested architectures that have a directory in the wheelhouse.
RECURSIVE Present(_, _)
Present(archs, i) ==
  IF i > Len(archs) THEN << >>
  ELSE (IF Str(archs[i]) \in DOMAIN wheelhouse THEN << archs[i] >> ELSE << >>)
         \o Present(archs, i + 1)

\* get_wheels with the arguments of the call in args but these archs.
WithArchs(archs) ==
  get_wheels(wheelhouse, archs, args.name, args.version, args.pythons,
             args.latest)

\* C10: a requested architecture without directory in the wheelhouse, None
\* of ['generic', None] included, adds no error and no wheel: get_wheels
\* returns, or raises, what it does for the other requested architectures
\* alone.
C10_MissingArchAddsNothing ==
  pc = "get_wheels" =>
    LET others == WithArchs(Present(args.archs, 1))
    IN  /\ ret = others.val
        /\ raised = others.exc
        /\ Present(args.archs, 1) = << >> => raised = NoException /\ ret = << >>

\* The default list when RSNT_ARCH is unset, on a wheelhouse whose generic
\* directory holds a wheel that is returned.
C10_Witness ==
  /\ pc = "get_wheels"
  /\ args.archs = ARCHITECTURES(None)
  /\ Present(args.archs, 1) = << S_generic >>
  /\ raised = NoException
  /\ ret # << >>


(***************************************************************************)
(* The walk of get_wheels                                                  *)
(***************************************************************************)

\* The wheelhouse without the subdirectories of its directories.
TopLevel(house) ==
  [a \in DOMAIN house |-> [files |-> house[a].files, dirs |-> << >>]]

\* The files in the subdirectories of the directory of arch, at any depth.
Nested(house, arch) ==
  IF Str(arch) \in DOMAIN house THEN WalkDirs(house[Str(arch)].dirs, 1)
  ELSE << >>

\* The visited files that are in a subdirectory, as Examined gives them.
RECURSIVE NestedExaminedFrom(_, _, _)
NestedExaminedFrom(house, archs, i) ==
  IF i > Len(archs) THEN << >>
  ELSE ExaminedFrom(Under(archs[i], Nested(house, archs[i])), 1)
         \o NestedExaminedFrom(house, archs, i + 1)

\* C11: only the files directly in the directory of a requested
\* architecture are enumerated: get_wheels returns, or raises, what it does
\* on the wheelhouse without its subdirectories.
C11_OnlyTopLevelFiles ==
  pc = "get_wheels" =>
    LET top == get_wheels(TopLevel(wheelhouse), args.archs, args.name,
                          args.version, args.pythons, args.latest)
    IN  ret = top.val /\ raised = top.exc

\* Every nested file that matches, parses and is compatible is stored.
NestedStored(nested, stored, pythons) ==
  \A k \in DOMAIN nested :
    nested[k].matches /\ nested[k].wheel.ok
      /\ CompatibleWith(nested[k].wheel.val, pythons)
    => \E kw \in stored : kw[2] = nested[k].wheel.val

\* C11, amended: the directory of a requested architecture is walked at
\* every depth: with latest=False and a list of requested pythons, on a
\* wheelhouse where every file the glob matches parses, the wheel
\* '<arch>/<file>' of a file in a subdirectory is in the mapping when the
\* file matches the glob, parses and has a compatible python tag.
C11_NestedFilesIncluded ==
  pc = "get_wheels" /\ ~args.latest /\ args.pythons # NoneList =>
    (MatchesParse(Examined) =>
       NestedStored(NestedExaminedFrom(wheelhouse, args.archs, 1),
                    Stored(ret), args.pythons))

\* The wheel of a file that is only in a subdirectory of generic is
\* returned.
C11_Witness ==
  /\ pc = "get_wheels" /\ ~args.latest /\ args.pythons # NoneList
  /\ MatchesParse(Examined)
  /\ raised = NoException
  /\ \E k \in 1..Len(Nested(wheelhouse, S_generic)) :
       \E kw \in Stored(ret) :
         /\ getattr(kw[2], "filename")
              = S_generic \o << "/" >> \o Nested(wheelhouse, S_generic)[k]
         /\ ~In(Nested(wheelhouse, S_generic)[k], wheelhouse[S_generic].files)

\* No two wheels of the list are made from the same path.
OncePerPath(wheel_list) ==
  \A j, k \in 1..Len(wheel_list) :
    getattr(wheel_list[j], "filename") = getattr(wheel_list[k], "filename")
      => j = k

\* C12: in the mapping get_wheels returns, whatever the architectures and
\* the pythons requested, no group holds two wheels made from the same path
\* '<arch>/<filename>': a wheel that several requested pythons accept is
\* appended once.
C12_EachFileStoredOnce ==
  pc = "get_wheels" /\ raised = NoException =>
    \A i \in 1..Len(ret) : OncePerPath(ret[i].v)

\* The first of the visited files, from the k-th on, that the glob matches
\* and that does not parse; 0 when there is none.
RECURSIVE FirstUnparsed(_, _)
FirstUnparsed(files, k) ==
  IF k > Len(files) THEN 0
  ELSE IF files[k].matches /\ ~files[k].wheel.ok THEN k
  ELSE FirstUnparsed(files, k + 1)

\* get_wheels raised the error of Wheel for the k-th visited file and
\* returned nothing.
Propagated(files, k) ==
  /\ raised = files[k].wheel.exc
  /\ raised = [type |-> "Exception",
               msg |-> CouldNotGetTags \o Path(Visited[k])]
  /\ ret = NoValue

\* C13: when, with a list of requested pythons, a visited file matches the
\* glob and does not parse, get_wheels raises the error of the first such
\* file, 'Could not get tags for : <arch>/<file>', and returns no mapping.
C13_UnparsedFileAborts ==
  pc = "get_wheels" /\ args.pythons # NoneList =>
    LET files == Examined
    IN  FirstUnparsed(files, 1) # 0 => Propagated(files, FirstUnparsed(files, 1))

\* The file that does not parse is visited after one whose wheel was
\* appended: the mapping built so far is not returned.
C13_Witness ==
  /\ pc = "get_wheels" /\ args.pythons # NoneList
  /\ raised.type = "Exception"
  /\ ret = NoValue
  /\ \E k \in 2..Len(Visited) :
       /\ FirstUnparsed(Examined, 1) = k
       /\ \E j \in 1..(k - 1) :
            /\ Matches(Visited[j]) /\ Parses(Visited[j])
            /\ CompatibleWith(Artifact(Visited[j]), args.pythons)

\* The groups of the mapping that hold a wheel, from the i-th on.
RECURSIVE WithoutEmpty(_, _)
WithoutEmpty(wheels, i) ==
  IF i > Len(wheels) THEN << >>
  ELSE (IF Len(wheels[i].v) > 0 THEN << wheels[i] >> ELSE << >>)
         \o WithoutEmpty(wheels, i + 1)

\* C14: latest_versions on a mapping with a name that has no wheel raises
\* nothing, and gives the other names the wheels it gives them when the
\* empty group is not there.
C14_EmptyGroupSkipped ==
  pc = "latest_versions" /\ ~NonEmptyGroups(args.wheels) =>
    /\ raised = NoException
    /\ \A i \in 1..Len(args.wheels) :
         Len(args.wheels[i].v) > 0 =>
           /\ args.wheels[i].k \in DictKeys(ret)
           /\ DictGet(ret, args.wheels[i].k)
                = DictGet(latest_versions(WithoutEmpty(args.wheels, 1)).val,
                          args.wheels[i].k)

\* The versions of the two wheels compare without an exception.
Comparable(a, b) == LooseVersion_cmp(loose_version(a), loose_version(b)).ok

\* C15: any two versions of parsed wheels compare under the loose ordering
\* without an exception, so latest_versions and sort return a result on
\* every mapping of parsed wheels whose groups are not empty.
C15_LooseOrderingTotal ==
  pc \in {"latest_versions", "sort"} /\ NonEmptyGroups(args.wheels) =>
    /\ \A i, j \in 1..Len(Flatten(args.wheels, 1)) :
         Comparable(Flatten(args.wheels, 1)[i], Flatten(args.wheels, 1)[j])
    /\ raised = NoException
====
